---- MODULE Spec2Model ----
(***************************************************************************)
(* Model of the procedural cave renderer of src/generator.js: the per-     *)
(* pixel ray march of the fragment shader (fixed steps, zero-crossing      *)
(* detection, four bisection steps), the fbm octave loop, the seed vector  *)
(* of the uSeedVec uniform and the frame loop that reads the live params   *)
(* object into the uniforms of one draw call.                              *)
(*                                                                         *)
(* Distances along a ray are fixed-point integers: one distance unit is    *)
(* Scale sub-units, and Scale = 2^(BisectIters+1) makes every midpoint of  *)
(* the bisection an integer.  A density sample is represented by its sign  *)
(* (-1, 0, 1): the march only ever tests the sign of a product of two      *)
(* samples.                                                                *)
(***************************************************************************)
EXTENDS Integers, Sequences, FiniteSets, TLC

VARIABLES
  \* the ray march of one pixel
  uStep,      \* uniform uStep (params.stepSize), in sub-units
  uMaxSteps,  \* uniform uMaxSteps (params.maxSteps)
  field,      \* sign of field(ro + rd*t) at every ray parameter t sampled or fixed so far
  march,      \* one record per pixel program being run: the locals of main()
  \* the fbm octave loop
  uFreq,      \* uniform uFreq, a rational <<numerator, denominator>>
  uGain,      \* uniform uGain, a rational
  uLacunarity,\* uniform uLacunarity, a rational
  noise,      \* valueNoise at every coordinate sampled so far
  fbm,        \* one record per evaluation of fbm(p): its locals
  \* the page: script load, event-loop tasks and the frame callback
  phase,      \* "load" while the script body runs, then "running"
  query,      \* the entries of location.search not yet visited by forEach
  params,     \* the params object (window.__cave)
  keys,       \* the movement key currently held
  cameraX,    \* camera position
  uniforms,   \* the uniform values of the draw call in flight
  atDraw,     \* params and camera as they were when draw() was invoked
  pixels,     \* what each fragment of the frame in flight has read and computed
  frames      \* number of frame callbacks run

marchVars == <<uStep, uMaxSteps, field, march>>
fbmVars == <<uFreq, uGain, uLacunarity, noise, fbm>>
frameVars == <<phase, query, params, keys, cameraX, uniforms, atDraw, pixels, frames>>

vars == <<marchVars, fbmVars, frameVars>>

----------------------------------------------------------------------------
(* Program constants *)

LoopCap == 512            \* for (int i=0; i<512; ++i)
BisectIters == 4          \* for (int j=0; j<4; ++j)
DefaultMaxSteps == 1024   \* params.maxSteps

(* Bounds of the model *)

MaxDist == 3              \* largest distance budget, in distance units
MaxStepsSmall == 2        \* largest explicit step budget besides the default

Scale == 2 ^ (BisectIters + 1)

Signs == {-1, 0, 1}

StepSizes == {-Scale, 0, Scale, 2 * Scale}
StepBudgets == (-1 .. MaxStepsSmall) \cup {DefaultMaxSteps}
DistBudgets == {d * Scale : d \in -1 .. MaxDist}

Abs(x) == IF x < 0 THEN -x ELSE x

\* The part of the ray on which the field varies.
InWindow(pos) == Abs(pos) <= MaxDist * Scale

\* The ray parameters whose density is fixed when the ray is chosen: the
\* sample points of the stepping loop that lie within the window.
Grid(step) == {p \in {k * step : k \in 0 .. MaxDist} : InWindow(p)}

\* Beyond the window the field keeps the sign it has at the last sample
\* point inside the window.
Far ==
  LET edge == CHOOSE p \in Grid(uStep) : \A q \in Grid(uStep) : Abs(q) <= Abs(p)
  IN  field[edge]

\* field(ro + rd*pos) yields v and leaves the known part of the field f2:
\* a point sampled before yields the same value again, a new point inside
\* the window yields any value, which is then remembered.
Sample(pos, v, f2) ==
  IF pos \in DOMAIN field THEN v = field[pos] /\ f2 = field
  ELSE IF ~InWindow(pos) THEN v = Far /\ f2 = field
  ELSE v \in Signs /\ f2 = (pos :> v) @@ field

\* 0.5*(a+b), exact on the fixed-point grid
Mid(a, b) == (a + b) \div 2

\* The pixel programs run one after another.
Turn(r) == \A q \in DOMAIN march : q < r => march[q].pc = "done"

NewRun(d) ==
  [pc |-> "start", uMaxDist |-> d, i |-> 0, t |-> 0, prevVal |-> 0, val |-> 0,
   a |-> 0, b |-> 0, j |-> 0, hitT |-> 0, samples |-> 0]

----------------------------------------------------------------------------
(* The ray march of main() *)

\* float t = 0.0; float prevVal = field(ro); float hitT = -1.0;
MarchStart(r) ==
  /\ march[r].pc = "start" /\ Turn(r)
  /\ \E v \in Signs :
       /\ Sample(0, v, field)
       /\ march' = [march EXCEPT ![r].pc = "loop", ![r].t = 0, ![r].prevVal = v,
                                 ![r].hitT = -Scale, ![r].i = 0,
                                 ![r].samples = 1]
  /\ UNCHANGED <<uStep, uMaxSteps, field, fbmVars, frameVars>>

\* The loop without its compile-time bound: only uMaxSteps ends it.
LoopExitNoCap(r) ==
  /\ march[r].pc = "loop" /\ Turn(r)
  /\ march[r].i >= uMaxSteps
  /\ march' = [march EXCEPT ![r].pc = "done"]
  /\ UNCHANGED <<uStep, uMaxSteps, field, fbmVars, frameVars>>

\* i<512 fails, or: if (i >= uMaxSteps) break;
LoopExit(r) ==
  /\ march[r].pc = "loop" /\ Turn(r)
  /\ (march[r].i >= LoopCap \/ march[r].i >= uMaxSteps)
  /\ march' = [march EXCEPT ![r].pc = "done"]
  /\ UNCHANGED <<uStep, uMaxSteps, field, fbmVars, frameVars>>

\* val = field(ro + rd*t); val * prevVal < 0.0: open the bracket [t - uStep, t]
StepCross(r) ==
  /\ march[r].pc = "loop" /\ Turn(r)
  /\ march[r].i < LoopCap /\ march[r].i < uMaxSteps
  /\ \E v \in Signs :
       /\ Sample(march[r].t, v, field)
       /\ v * march[r].prevVal < 0
       /\ march' = [march EXCEPT ![r].pc = "refine", ![r].val = v,
                                 ![r].a = march[r].t - uStep, ![r].b = march[r].t,
                                 ![r].j = 0, ![r].samples = @ + 1]
  /\ UNCHANGED <<uStep, uMaxSteps, field, fbmVars, frameVars>>

\* The distance test with the comparison inverted: if (t < uMaxDist) break;
StepAdvanceInverted(r) ==
  /\ march[r].pc = "loop" /\ Turn(r)
  /\ march[r].i < LoopCap /\ march[r].i < uMaxSteps
  /\ \E v \in Signs :
       /\ Sample(march[r].t, v, field)
       /\ ~(v * march[r].prevVal < 0)
       /\ march' = [march EXCEPT ![r].val = v, ![r].prevVal = v,
                                 ![r].t = @ + uStep, ![r].i = @ + 1,
                                 ![r].samples = @ + 1,
                                 ![r].pc = IF march[r].t + uStep < march[r].uMaxDist
                                           THEN "done" ELSE "loop"]
  /\ UNCHANGED <<uStep, uMaxSteps, field, fbmVars, frameVars>>

\* The distance test made before the step: if (t > uMaxDist) break; t += uStep;
StepAdvanceLateCheck(r) ==
  /\ march[r].pc = "loop" /\ Turn(r)
  /\ march[r].i < LoopCap /\ march[r].i < uMaxSteps
  /\ \E v \in Signs :
       /\ Sample(march[r].t, v, field)
       /\ ~(v * march[r].prevVal < 0)
       /\ march' = [march EXCEPT ![r].val = v, ![r].prevVal = v,
                                 ![r].t = @ + uStep, ![r].i = @ + 1,
                                 ![r].samples = @ + 1,
                                 ![r].pc = IF march[r].t > march[r].uMaxDist
                                           THEN "done" ELSE "loop"]
  /\ UNCHANGED <<uStep, uMaxSteps, field, fbmVars, frameVars>>

\* no crossing: prevVal = val; t += uStep; if (t > uMaxDist) break; ++i
StepAdvance(r) ==
  /\ march[r].pc = "loop" /\ Turn(r)
  /\ march[r].i < LoopCap /\ march[r].i < uMaxSteps
  /\ \E v \in Signs :
       /\ Sample(march[r].t, v, field)
       /\ ~(v * march[r].prevVal < 0)
       /\ march' = [march EXCEPT ![r].val = v, ![r].prevVal = v,
                                 ![r].t = @ + uStep, ![r].i = @ + 1,
                                 ![r].samples = @ + 1,
                                 ![r].pc = IF march[r].t + uStep > march[r].uMaxDist
                                           THEN "done" ELSE "loop"]
  /\ UNCHANGED <<uStep, uMaxSteps, field, fbmVars, frameVars>>

\* The bisection with its branches swapped: if (mv * val < 0.0) b = m; else a = m;
BisectSwapped(r) ==
  /\ march[r].pc = "refine" /\ Turn(r)
  /\ march[r].j < BisectIters
  /\ LET m == Mid(march[r].a, march[r].b) IN
     \E mv \in Signs, f2 \in {field} \cup {(m :> s) @@ field : s \in Signs} :
       /\ Sample(m, mv, f2)
       /\ field' = f2
       /\ march' = [march EXCEPT ![r].a = IF mv * march[r].val < 0 THEN @ ELSE m,
                                 ![r].b = IF mv * march[r].val < 0 THEN m ELSE @,
                                 ![r].j = @ + 1, ![r].samples = @ + 1]
  /\ UNCHANGED <<uStep, uMaxSteps, fbmVars, frameVars>>

\* m = 0.5*(a+b); mv = field(ro + rd*m); if (mv * val < 0.0) a = m; else b = m;
Bisect(r) ==
  /\ march[r].pc = "refine" /\ Turn(r)
  /\ march[r].j < BisectIters
  /\ LET m == Mid(march[r].a, march[r].b) IN
     \E mv \in Signs, f2 \in {field} \cup {(m :> s) @@ field : s \in Signs} :
       /\ Sample(m, mv, f2)
       /\ field' = f2
       /\ march' = [march EXCEPT ![r].a = IF mv * march[r].val < 0 THEN m ELSE @,
                                 ![r].b = IF mv * march[r].val < 0 THEN @ ELSE m,
                                 ![r].j = @ + 1, ![r].samples = @ + 1]
  /\ UNCHANGED <<uStep, uMaxSteps, fbmVars, frameVars>>

\* The refinement leaving its loop one iteration early (j<3).
RefineDoneEarly(r) ==
  /\ march[r].pc = "refine" /\ Turn(r)
  /\ march[r].j >= BisectIters - 1
  /\ march' = [march EXCEPT ![r].hitT = Mid(march[r].a, march[r].b), ![r].pc = "done"]
  /\ UNCHANGED <<uStep, uMaxSteps, field, fbmVars, frameVars>>

\* hitT = 0.5*(a+b); break;
RefineDone(r) ==
  /\ march[r].pc = "refine" /\ Turn(r)
  /\ march[r].j >= BisectIters
  /\ march' = [march EXCEPT ![r].hitT = Mid(march[r].a, march[r].b), ![r].pc = "done"]
  /\ UNCHANGED <<uStep, uMaxSteps, field, fbmVars, frameVars>>

\* if (hitT > 0.0) { shade the hit } else { fog of a miss }
MarchResult(r) == IF march[r].hitT > 0 THEN "Hit" ELSE "Miss"

MarchNext ==
  \/ \E r \in DOMAIN march : MarchStart(r)
  \/ \E r \in DOMAIN march : LoopExit(r)
  \/ \E r \in DOMAIN march : StepCross(r)
  \/ \E r \in DOMAIN march : StepAdvance(r)
  \/ \E r \in DOMAIN march : Bisect(r)
  \/ \E r \in DOMAIN march : RefineDone(r)

----------------------------------------------------------------------------
(* fbm: the octave loop.  Amplitudes, frequencies and sums are exact         *)
(* rationals <<numerator, denominator>> in lowest terms.                     *)

OctaveCap == 8            \* for (int o = 0; o < 8; ++o)
MaxOctaves == 9           \* largest requested octave count explored in full

RECURSIVE GCD(_, _)
GCD(x, y) == IF y = 0 THEN x ELSE GCD(y, x % y)

Rat(n, d) == LET g == GCD(Abs(n), d) IN <<n \div g, d \div g>>
RatMul(x, y) == Rat(x[1] * y[1], x[2] * y[2])
RatAdd(x, y) ==
  LET g == GCD(x[2], y[2])
  IN  Rat(x[1] * (y[2] \div g) + y[1] * (x[2] \div g), (x[2] \div g) * y[2])

Freqs == {<<3, 10>>}                  \* params.freq: 0.3
Gains == {<<4, 5>>, <<1, 2>>}         \* params.gain: 0.8, and another in (0,1)
Lacunarities == {<<2, 1>>, <<3, 2>>}  \* params.lacunarity: 2.0, and another
Points == {<<1, 1>>, <<5, 2>>}        \* coordinates of the point p
OctaveRequests == (-1 .. MaxOctaves) \cup {20}

\* The values valueNoise can return, in [0,1)
NoiseVals == {<<0, 1>>, <<1, 2>>}

\* valueNoise(x) yields v and leaves the known part of the noise n2: the
\* same coordinate always yields the same value.
NoiseSample(x, v, n2) ==
  IF x \in DOMAIN noise THEN v = noise[x] /\ n2 = noise
  ELSE v \in NoiseVals /\ n2 = (x :> v) @@ noise

\* The evaluations of fbm run one after another.
FbmTurn(r) == \A q \in DOMAIN fbm : q < r => fbm[q].pc = "done"

NewFbm(n, p) ==
  [pc |-> "start", uOctaves |-> n, p |-> p, o |-> 0, amp |-> <<0, 1>>,
   f |-> <<0, 1>>, sum |-> <<0, 1>>, terms |-> <<>>]

\* float amp = 0.5; float f = uFreq; float sum = 0.0;
FbmStart(r) ==
  /\ fbm[r].pc = "start" /\ FbmTurn(r)
  /\ fbm' = [fbm EXCEPT ![r].pc = "loop", ![r].amp = <<1, 2>>, ![r].f = uFreq,
                         ![r].sum = <<0, 1>>, ![r].o = 0]
  /\ UNCHANGED <<uFreq, uGain, uLacunarity, noise, marchVars, frameVars>>

\* The octave loop without its compile-time bound: only uOctaves ends it.
FbmOctaveNoCap(r) ==
  /\ fbm[r].pc = "loop" /\ FbmTurn(r)
  /\ fbm[r].o < fbm[r].uOctaves
  /\ LET x == RatMul(fbm[r].p, fbm[r].f) IN
     \E nv \in NoiseVals, n2 \in {noise} \cup {(x :> w) @@ noise : w \in NoiseVals} :
       /\ NoiseSample(x, nv, n2)
       /\ noise' = n2
       /\ fbm' = [fbm EXCEPT ![r].sum = RatAdd(@, RatMul(fbm[r].amp, nv)),
                             ![r].f = RatMul(@, uLacunarity),
                             ![r].amp = RatMul(@, uGain),
                             ![r].terms = Append(@, <<fbm[r].amp, fbm[r].f>>),
                             ![r].o = @ + 1]
  /\ UNCHANGED <<uFreq, uGain, uLacunarity, marchVars, frameVars>>

\* sum += amp * valueNoise(p * f); f *= uLacunarity; amp *= uGain; ++o
FbmOctave(r) ==
  /\ fbm[r].pc = "loop" /\ FbmTurn(r)
  /\ fbm[r].o < OctaveCap /\ fbm[r].o < fbm[r].uOctaves
  /\ LET x == RatMul(fbm[r].p, fbm[r].f) IN
     \E nv \in NoiseVals, n2 \in {noise} \cup {(x :> w) @@ noise : w \in NoiseVals} :
       /\ NoiseSample(x, nv, n2)
       /\ noise' = n2
       /\ fbm' = [fbm EXCEPT ![r].sum = RatAdd(@, RatMul(fbm[r].amp, nv)),
                             ![r].f = RatMul(@, uLacunarity),
                             ![r].amp = RatMul(@, uGain),
                             ![r].terms = Append(@, <<fbm[r].amp, fbm[r].f>>),
                             ![r].o = @ + 1]
  /\ UNCHANGED <<uFreq, uGain, uLacunarity, marchVars, frameVars>>

\* o < 8 fails, or: if (o >= uOctaves) break;  then: return sum;
FbmExit(r) ==
  /\ fbm[r].pc = "loop" /\ FbmTurn(r)
  /\ (fbm[r].o >= OctaveCap \/ fbm[r].o >= fbm[r].uOctaves)
  /\ fbm' = [fbm EXCEPT ![r].pc = "done"]
  /\ UNCHANGED <<uFreq, uGain, uLacunarity, noise, marchVars, frameVars>>

FbmNext ==
  \/ \E r \in DOMAIN fbm : FbmStart(r)
  \/ \E r \in DOMAIN fbm : FbmOctave(r)
  \/ \E r \in DOMAIN fbm : FbmExit(r)

----------------------------------------------------------------------------
(* The page: params, the URL query, the uniforms and the frame loop.  A JS   *)
(* number is a record: NaN, or an integer n.                                 *)

Modulus == 2147483647     \* % 2147483647
MulX == 16807             \* s * 16807
MulY == 48271             \* s * 48271
MulZ == 69621             \* s * 69621
DefaultMaxDist == 200     \* params.maxDist
DefaultSeed == 0          \* params.seed

MaxFrames == 2            \* frame callbacks explored
NumPixels == 2            \* fragments of one draw call
MaxQuery == 1             \* entries of the URL query

Num(n) == [nan |-> FALSE, n |-> n]
NaN == [nan |-> TRUE, n |-> 0]

Pixels == 1 .. NumPixels

\* Number(v) of a string of the URL query
Number(v) ==
  CASE v = "42" -> Num(42)
    [] v = "0" -> Num(0)
    [] v = "-5" -> Num(-5)
    [] v = "" -> Num(0)
    [] OTHER -> NaN

QueryKeys == {"seed", "maxDist", "zoom"}
QueryValues == {"42", "0", "-5", "abc"}

Queries ==
  UNION {[1 .. n -> QueryKeys \X QueryValues] : n \in 0 .. MaxQuery}

\* What the console can store in a field of window.__cave
ConsoleValues(k) ==
  IF k = "seed" THEN {Num(-1), Num(999), Num(-Modulus)}
  ELSE {Num(0), Num(-5), Num(50)}

\* x | 0 of a JS number whose value lies in the int32 range
ToInt32(x) == IF x.nan THEN 0 ELSE x.n

\* (x + y) mod m for 0 <= x, y < m, without leaving the 32-bit integers
AddMod(x, y, m) == IF x >= m - y THEN x - (m - y) ELSE x + y

\* (a * b) mod m for 0 <= a < m and b >= 0, by doubling
RECURSIVE MulMod(_, _, _)
MulMod(a, b, m) ==
  IF b = 0 THEN 0
  ELSE LET h == MulMod(a, b \div 2, m)
           d == AddMod(h, h, m)
       IN  IF b % 2 = 1 THEN AddMod(d, a, m) ELSE d

\* (s * k) % 2147483647 as JS computes it: the product is exact in a double
\* (below 2^53), and the remainder takes the sign of the dividend.
JsRemProduct(s, k) ==
  IF s >= 0 THEN MulMod(s % Modulus, k, Modulus)
            ELSE -MulMod((-s) % Modulus, k, Modulus)

\* uSeedVec: the numerators of [x, y, z], each over 2147483647
SeedVec(seed) ==
  LET s == ToInt32(seed)
  IN  <<JsRemProduct(s, MulX), JsRemProduct(s, MulY), JsRemProduct(s, MulZ)>>

\* The uniform functions, evaluated on the current params and camera
EvalUniforms(ps, cam) ==
  [uSeedVec |-> SeedVec(ps.seed), uMaxDist |-> ps.maxDist, uCamPos |-> cam]

NoPixel ==
  [state |-> "none", uSeedVec |-> <<0, 0, 0>>, uMaxDist |-> Num(0), uCamPos |-> 0,
   fog |-> "none"]

\* 1.0 / uMaxDist and t / uMaxDist of the fog term
FogKind(d) ==
  IF d.nan THEN "nan" ELSE IF d.n = 0 THEN "inf" ELSE IF d.n < 0 THEN "negative" ELSE "finite"

\* forEach((v,k) => { if (k in params) params[k] = Number(v); }), one entry
UrlParam ==
  /\ phase = "load" /\ query # <<>>
  /\ LET k == Head(query)[1]
         v == Head(query)[2]
     IN  params' = IF k \in DOMAIN params THEN [params EXCEPT ![k] = Number(v)]
                   ELSE params
  /\ query' = Tail(query)
  /\ UNCHANGED <<phase, keys, cameraX, uniforms, atDraw, pixels, frames, marchVars, fbmVars>>

\* the rest of the script: regl({...}), regl.frame(...), window.__cave = params
LoadDone ==
  /\ phase = "load" /\ query = <<>>
  /\ phase' = "running"
  /\ UNCHANGED <<query, params, keys, cameraX, uniforms, atDraw, pixels, frames,
                 marchVars, fbmVars>>

\* a task of the event loop: __cave.k = v typed in the console
ConsoleSet(k, v) ==
  /\ phase = "running"
  /\ params[k] # v
  /\ params' = [params EXCEPT ![k] = v]
  /\ UNCHANGED <<phase, query, keys, cameraX, uniforms, atDraw, pixels, frames,
                 marchVars, fbmVars>>

\* a task of the event loop: a movement key goes down or up
KeyTask(k) ==
  /\ phase = "running"
  /\ keys # k
  /\ keys' = k
  /\ UNCHANGED <<phase, query, params, cameraX, uniforms, atDraw, pixels, frames,
                 marchVars, fbmVars>>

\* updateCamera(): move along the held key
UpdateCamera(cam) == IF keys = "w" THEN cam + 1 ELSE IF keys = "s" THEN cam - 1 ELSE cam

\* What a fragment reads were the uniform functions evaluated when it runs
\* and not once for the draw call.
UniformsSeenLive == EvalUniforms(params, cameraX)

\* What a fragment of the draw call in flight reads: the values bound when
\* draw() evaluated the uniform functions.
UniformsSeen == uniforms

\* regl.frame callback: updateCamera(); regl.clear(...); draw();
Frame ==
  /\ phase = "running" /\ frames < MaxFrames
  /\ \A p \in Pixels : pixels[p].state # "pending"
  /\ cameraX' = UpdateCamera(cameraX)
  /\ uniforms' = EvalUniforms(params, cameraX')
  /\ atDraw' = [params |-> params, cameraX |-> cameraX']
  /\ pixels' = [p \in Pixels |-> [NoPixel EXCEPT !.state = "pending"]]
  /\ frames' = frames + 1
  /\ UNCHANGED <<phase, query, params, keys, marchVars, fbmVars>>

\* main() of one fragment when its march ends with hitT > 0.0
FragmentHit(p) ==
  /\ pixels[p].state = "pending"
  /\ pixels' = [pixels EXCEPT ![p] =
       [state |-> "hit", uSeedVec |-> UniformsSeen.uSeedVec,
        uMaxDist |-> UniformsSeen.uMaxDist, uCamPos |-> UniformsSeen.uCamPos,
        fog |-> "none"]]
  /\ UNCHANGED <<phase, query, params, keys, cameraX, uniforms, atDraw, frames,
                 marchVars, fbmVars>>

\* main() of one fragment when its march ends in a miss: the fog branch
\* divides by uMaxDist
FragmentMiss(p) ==
  /\ pixels[p].state = "pending"
  /\ pixels' = [pixels EXCEPT ![p] =
       [state |-> "miss", uSeedVec |-> UniformsSeen.uSeedVec,
        uMaxDist |-> UniformsSeen.uMaxDist, uCamPos |-> UniformsSeen.uCamPos,
        fog |-> FogKind(UniformsSeen.uMaxDist)]]
  /\ UNCHANGED <<phase, query, params, keys, cameraX, uniforms, atDraw, frames,
                 marchVars, fbmVars>>

FrameNext ==
  \/ UrlParam
  \/ LoadDone
  \/ \E k \in {"seed", "maxDist"} : \E v \in ConsoleValues(k) : ConsoleSet(k, v)
  \/ \E k \in {"none", "w", "s"} : KeyTask(k)
  \/ Frame
  \/ \E p \in Pixels : FragmentHit(p)
  \/ \E p \in Pixels : FragmentMiss(p)

----------------------------------------------------------------------------
(* Specifications of the ray march *)

\* The parts of the state a specification does not exercise stay put.
FbmIdle ==
  /\ uFreq = <<0, 1>> /\ uGain = <<0, 1>> /\ uLacunarity = <<0, 1>>
  /\ noise = <<>> /\ fbm = <<>>

FrameIdle ==
  /\ phase = "idle" /\ query = <<>> /\ params = <<>> /\ keys = "none"
  /\ cameraX = 0 /\ uniforms = <<>> /\ atDraw = <<>> /\ pixels = <<>> /\ frames = 0

MarchIdle == uStep = 0 /\ uMaxSteps = 0 /\ field = <<>> /\ march = <<>>

\* One pixel program on any ray, with any step size and budgets.
MarchInit ==
  /\ uStep \in StepSizes
  /\ uMaxSteps \in StepBudgets
  /\ field \in [Grid(uStep) -> Signs]
  /\ \E d \in DistBudgets : march = (1 :> NewRun(d))
  /\ FbmIdle /\ FrameIdle

SpecMarch == MarchInit /\ [][MarchNext]_vars

\* The same with weak fairness: a shader invocation, once started, runs on.
FairMarch == SpecMarch /\ WF_vars(MarchNext)

\* Two pixel programs on the same ray and field, with the same positive step
\* size and step budget, that differ only in uMaxDist.
PairInit ==
  /\ uStep \in {s \in StepSizes : s > 0}
  /\ uMaxSteps \in StepBudgets
  /\ field \in [Grid(uStep) -> Signs]
  /\ \E d1, d2 \in DistBudgets :
       /\ d1 < d2
       /\ march = (1 :> NewRun(d1)) @@ (2 :> NewRun(d2))
  /\ FbmIdle /\ FrameIdle

SpecPair == PairInit /\ [][MarchNext]_vars

\* Two evaluations of fbm at the same point of the same noise, with the same
\* frequency, gain and lacunarity, that differ only in the octave count.
FbmInit ==
  /\ uFreq \in Freqs /\ uGain \in Gains /\ uLacunarity \in Lacunarities
  /\ noise = <<>>
  /\ \E n1, n2 \in OctaveRequests, p \in Points :
       /\ n1 <= n2
       /\ fbm = (1 :> NewFbm(n1, p)) @@ (2 :> NewFbm(n2, p))
  /\ MarchIdle /\ FrameIdle

SpecFbm == FbmInit /\ [][FbmNext]_vars

\* The page from the start of the script, with any URL query.
FrameInit ==
  /\ phase = "load"
  /\ query \in Queries
  /\ params = [seed |-> Num(DefaultSeed), maxDist |-> Num(DefaultMaxDist)]
  /\ keys = "none" /\ cameraX = 0
  /\ uniforms = EvalUniforms(params, cameraX)
  /\ atDraw = [params |-> params, cameraX |-> cameraX]
  /\ pixels = [p \in Pixels |-> NoPixel]
  /\ frames = 0
  /\ MarchIdle /\ FbmIdle

SpecFrame == FrameInit /\ [][FrameNext]_vars

----------------------------------------------------------------------------
(* Properties of the ray march *)

Runs == DOMAIN march

Min(x, y) == IF x < y THEN x ELSE y
Max(x, y) == IF x < y THEN y ELSE x

\* x lies between p and q, whichever is the larger
Between(x, p, q) == Min(p, q) <= x /\ x <= Max(p, q)

\* C1: Miss monotonicity. Of two marches on the same ray and field, with the
\* same positive step size and step budget and distance budgets D1 < D2, if
\* the one with D1 ends in a Hit then so does the one with D2, at exactly the
\* same distance.
MissMonotone ==
  (/\ 2 \in Runs
   /\ march[1].pc = "done" /\ march[2].pc = "done"
   /\ march[1].uMaxDist < march[2].uMaxDist
   /\ MarchResult(1) = "Hit")
  => (MarchResult(2) = "Hit" /\ march[2].hitT = march[1].hitT)

MissMonotoneWitness ==
  /\ 2 \in Runs
  /\ march[1].pc = "done" /\ march[2].pc = "done"
  /\ march[1].uMaxDist < march[2].uMaxDist
  /\ MarchResult(1) = "Hit" /\ MarchResult(2) = "Hit"
  /\ march[1].t <= march[1].uMaxDist

\* C2 as stated: at the start of each bisection iteration and after the last
\* one, the densities at the two bracket endpoints have strictly different
\* signs, density(a) * density(b) < 0, whatever the midpoint densities are.
BracketStrict ==
  \A r \in Runs :
    march[r].pc = "refine" => field[march[r].a] * field[march[r].b] < 0

\* C2 as amended: at the start of each bisection iteration and after the last
\* one, density(a) is nonzero with the sign opposite to the sample that
\* opened the bracket, and density(b) has that sample's sign or is exactly
\* zero; so density(a) * density(b) <= 0, and it is 0 only when b is a
\* sampled midpoint whose density is exactly zero.
BracketWeak ==
  \A r \in Runs :
    march[r].pc = "refine" =>
      /\ field[march[r].a] * march[r].val < 0
      /\ field[march[r].b] * march[r].val >= 0
      /\ field[march[r].a] * field[march[r].b] <= 0
      /\ (field[march[r].a] * field[march[r].b] = 0 =>
            /\ field[march[r].b] = 0
            /\ march[r].b # march[r].t
            /\ march[r].j > 0)

BracketWeakWitness ==
  \E r \in Runs :
    /\ march[r].pc = "refine" /\ march[r].j = BisectIters
    /\ field[march[r].b] = 0
    /\ march[r].a # march[r].t - uStep

\* The step indices k at which the claim of C3 promises a Hit: 1 <= k <=
\* uMaxSteps, k*uStep within the distance budget, and a strict sign change
\* between the densities at (k-1)*uStep and k*uStep.
Crossings(r) ==
  {k \in 1 .. MaxDist :
     /\ k <= uMaxSteps
     /\ k * uStep <= march[r].uMaxDist
     /\ k * uStep \in DOMAIN field
     /\ field[(k - 1) * uStep] * field[k * uStep] < 0}

FirstCrossing(r) == CHOOSE k \in Crossings(r) : \A q \in Crossings(r) : k <= q

\* C3: step budget. With uMaxSteps = N and uStep > 0 the march samples the N
\* points uStep, 2*uStep, ..., N*uStep: when the first strict sign change
\* within the distance budget lies between (k-1)*uStep and k*uStep for some
\* 1 <= k <= N, the march ends in a Hit inside that bracket, and it ends in
\* a Miss only when there is no such k.
StepBudgetHit ==
  \A r \in Runs :
    (march[r].pc = "done" /\ uStep > 0) =>
      IF Crossings(r) # {}
      THEN /\ MarchResult(r) = "Hit"
           /\ march[r].t = FirstCrossing(r) * uStep
           /\ Between(march[r].hitT, march[r].t - uStep, march[r].t)
      ELSE MarchResult(r) = "Miss"

\* C4: hit distance range. With uStep > 0 and uMaxDist > 0, a Hit reports a
\* distance with 0 < hitT <= uMaxDist that lies in the bracket [t - uStep, t]
\* of the step that detected the sign change; and the first loop iteration
\* (t = 0, compared with the origin sample) never opens a bracket.
HitRange ==
  \A r \in Runs :
    /\ march[r].pc = "refine" => (march[r].i >= 1 /\ march[r].t # 0)
    /\ (/\ uStep > 0 /\ march[r].uMaxDist > 0
        /\ march[r].pc = "done" /\ MarchResult(r) = "Hit")
       => /\ 0 < march[r].hitT
          /\ march[r].hitT <= march[r].uMaxDist
          /\ march[r].t - uStep <= march[r].hitT
          /\ march[r].hitT <= march[r].t

HitRangeWitness ==
  \E r \in Runs :
    /\ uStep > 0 /\ march[r].uMaxDist > 0
    /\ march[r].pc = "done" /\ MarchResult(r) = "Hit"
    /\ march[r].t = march[r].uMaxDist

\* What every state of a refinement satisfies: after j iterations the
\* bracket has width uStep / 2^j and lies in the initial bracket
\* [t - uStep, t]; the distance emitted after the 4th is its midpoint.
RefineState(r) ==
  /\ march[r].pc = "refine" =>
       /\ march[r].j \in 0 .. BisectIters
       /\ (march[r].b - march[r].a) * (2 ^ march[r].j) = uStep
       /\ Between(march[r].a, march[r].t - uStep, march[r].t)
       /\ Between(march[r].b, march[r].t - uStep, march[r].t)
  /\ (march[r].pc = "done" /\ march[r].j > 0) =>
       /\ march[r].j = BisectIters
       /\ (march[r].b - march[r].a) * (2 ^ BisectIters) = uStep
       /\ 2 * march[r].hitT = march[r].a + march[r].b
       /\ Between(march[r].hitT, march[r].t - uStep, march[r].t)

\* What every step of a refinement does: an iteration replaces exactly one
\* endpoint by the midpoint, and the refinement ends only after the 4th.
RefineStep(r) ==
  /\ (march[r].pc = "refine" /\ march'[r].pc = "refine" /\ march'[r] # march[r]) =>
       /\ march'[r].j = march[r].j + 1
       /\ \/ march'[r].a = Mid(march[r].a, march[r].b) /\ march'[r].b = march[r].b
          \/ march'[r].b = Mid(march[r].a, march[r].b) /\ march'[r].a = march[r].a
       /\ 2 * Mid(march[r].a, march[r].b) = march[r].a + march[r].b
  /\ (march[r].pc = "refine" /\ march'[r].pc # "refine") =>
       /\ march[r].j = BisectIters
       /\ march'[r].pc = "done"
       /\ march'[r].a = march[r].a /\ march'[r].b = march[r].b

\* C9: refinement precision. Refining performs exactly 4 bisection
\* iterations, each replacing one endpoint by the midpoint, so the bracket
\* halves and stays nested; after the 4th it has width uStep/16, lies in
\* [t - uStep, t], and the emitted distance is exactly its midpoint.
RefinePrecision ==
  /\ [](\A r \in Runs : RefineState(r))
  /\ [][\A r \in Runs : RefineStep(r)]_vars

RefinePrecisionWitness ==
  \E r \in Runs :
    /\ march[r].pc = "done" /\ march[r].j = BisectIters
    /\ march[r].b - march[r].a = 2
    /\ march[r].hitT = march[r].a + 1

Rank(pc) == CASE pc = "start" -> 0 [] pc = "loop" -> 1 [] pc = "refine" -> 2 [] pc = "done" -> 3

\* The most samples of the field one march can take: the origin, one per
\* loop iteration, four midpoints.
SampleBound == 1 + Min(Max(uMaxSteps, 0), LoopCap) + BisectIters

\* C10: termination. For any step budget, distance budget and step size
\* (zero and negative included) a march goes start -> stepping ->
\* (optionally refining) -> done, never back, takes at most SampleBound
\* samples, reaches done, and once done its result does not change.
MarchTerminates ==
  /\ <>[](\A r \in Runs : march[r].pc = "done")
  /\ [](\A r \in Runs : march[r].samples <= SampleBound)
  /\ [][\A r \in Runs :
          /\ Rank(march'[r].pc) >= Rank(march[r].pc)
          /\ march[r].pc = "done" => march'[r] = march[r]]_vars

MarchTerminatesWitness ==
  \E r \in Runs :
    /\ march[r].pc = "done" /\ uStep <= 0
    /\ march[r].i = LoopCap /\ uMaxSteps > LoopCap
    /\ MarchResult(r) = "Miss"

----------------------------------------------------------------------------
(* Properties of fbm *)

RECURSIVE RatPow(_, _)
RatPow(x, k) == IF k = 0 THEN <<1, 1>> ELSE RatMul(x, RatPow(x, k - 1))

\* min(max(n,0), 8)
Clamp(n) == Min(Max(n, 0), OctaveCap)

\* amp * valueNoise(p * f) summed over the first k recorded octaves
RECURSIVE TermSum(_, _)
TermSum(r, k) ==
  IF k = 0 THEN <<0, 1>>
  ELSE RatAdd(TermSum(r, k - 1),
              RatMul(fbm[r].terms[k][1], noise[RatMul(fbm[r].p, fbm[r].terms[k][2])]))

\* C8: octave clamp. An evaluation of fbm with requested octave count n
\* accumulates exactly min(max(n,0), 8) octaves, octave o with amplitude
\* 0.5*gain^o and frequency freq*lacunarity^o, and returns their sum; so any
\* two requests n >= 8 (8 and 20, say) return the same value at the same
\* point.
OctaveClamp ==
  /\ \A r \in DOMAIN fbm :
       /\ Len(fbm[r].terms) <= Clamp(fbm[r].uOctaves)
       /\ fbm[r].pc = "done" =>
            /\ Len(fbm[r].terms) = Clamp(fbm[r].uOctaves)
            /\ \A k \in 1 .. Len(fbm[r].terms) :
                 fbm[r].terms[k] = <<RatMul(<<1, 2>>, RatPow(uGain, k - 1)),
                                     RatMul(uFreq, RatPow(uLacunarity, k - 1))>>
            /\ fbm[r].sum = TermSum(r, Len(fbm[r].terms))
  /\ \A r, q \in DOMAIN fbm :
       (/\ fbm[r].pc = "done" /\ fbm[q].pc = "done"
        /\ fbm[r].uOctaves >= OctaveCap /\ fbm[q].uOctaves >= OctaveCap)
       => (fbm[r].sum = fbm[q].sum /\ fbm[r].terms = fbm[q].terms)

OctaveClampWitness ==
  /\ DOMAIN fbm = {1, 2}
  /\ fbm[1].pc = "done" /\ fbm[2].pc = "done"
  /\ fbm[1].uOctaves = 8 /\ fbm[2].uOctaves = 20
  /\ Len(fbm[2].terms) = 8
  /\ fbm[2].sum # <<0, 1>>

----------------------------------------------------------------------------
(* Properties of the page *)

ValidMaxDist(d) == ~d.nan /\ d.n > 0

\* C5: an invalid configuration is rejected, not rendered. No frame is drawn
\* with a maxDist that is <= 0 or not a number: the draw call's uMaxDist is
\* always a valid one, and the fog term of a miss never divides by a
\* uMaxDist <= 0.
InvalidConfigRejected ==
  /\ frames > 0 => ValidMaxDist(uniforms.uMaxDist)
  /\ \A p \in Pixels : pixels[p].state = "miss" => pixels[p].fog = "finite"

\* C6: frame snapshot atomicity. Every fragment of a frame has read the same
\* uniform values, each the value params and the camera held when that
\* frame's draw() was invoked, whatever tasks have mutated params or the
\* keys since.
FrameAtomic ==
  /\ uniforms = EvalUniforms(atDraw.params, atDraw.cameraX)
  /\ \A p \in Pixels :
       pixels[p].state \in {"hit", "miss"} =>
         /\ pixels[p].uSeedVec = SeedVec(atDraw.params.seed)
         /\ pixels[p].uMaxDist = atDraw.params.maxDist
         /\ pixels[p].uCamPos = atDraw.cameraX
  /\ \A p, q \in Pixels :
       (pixels[p].state \in {"hit", "miss"} /\ pixels[q].state \in {"hit", "miss"}) =>
         /\ pixels[p].uSeedVec = pixels[q].uSeedVec
         /\ pixels[p].uMaxDist = pixels[q].uMaxDist
         /\ pixels[p].uCamPos = pixels[q].uCamPos

\* a frame during which params changed between two of its fragments
FrameAtomicWitness ==
  /\ frames = MaxFrames
  /\ \A p \in Pixels : pixels[p].state \in {"hit", "miss"}
  /\ params.maxDist # atDraw.params.maxDist
  /\ params.seed # atDraw.params.seed
  /\ keys = "w"

\* C7: SeedVector range. For every 32-bit seed, negative ones included, each
\* component of uSeedVec lies in [0,1): its numerator over 2147483647 lies in
\* 0 .. 2147483646.
SeedVecInRange ==
  frames > 0 =>
    \A c \in 1 .. 3 : 0 <= uniforms.uSeedVec[c] /\ uniforms.uSeedVec[c] < Modulus

====
